---- MODULE Spec2Model ----
(***************************************************************************)
(* A model of train.py: the masking function mask_and_ind, the Keras       *)
(* Sequence DataGenerator, and the orchestration main / train_METModel     *)
(* (graph shapes, checkpoint probe, fit loop with ModelCheckpoint, final   *)
(* reload).                                                                *)
(*                                                                         *)
(* Python lists and numpy arrays are functions on 0..n-1, so that the      *)
(* code's column and row indices are the model's.                          *)
(***************************************************************************)
EXTENDS Integers, FiniteSets, Sequences, TLC

\* ------------------------------------------------------------------ bounds
MaxCols == 3
MaxLen == 3
MaxBatch == 2
MaxEmbed == 2
MaxEpochs == 3
MaxAcc == 1

\* The mask percentages tried (integers, as the flag mask_pct is).
MaskPcts == {0, 30, 50, 70}

VARIABLES
    \* ---- DataGenerator
    gen_pc,        \* "new" before __init__, "ready" after
    orig_df,       \* the table read from the csv: rows 0..R-1, columns 0..C
    indexes,       \* self.indexes
    indexes0,      \* the list __init__ was given (history)
    batch_size,    \* self.batch_size
    shuffle,       \* self.shuffle
    gen_mask_pct,  \* self.mask_pct
    maxlen,        \* self.maxlen
    small_maxlen,  \* self.small_maxlen
    call,          \* the last call made on the generator
    num_batches,   \* what the last call returned, when it was __len__ (else -1)
    X,             \* what the last call returned, when it was __getitem__: the four inputs
    y,             \* ... and the target
    raised,        \* the exception the last call raised, or "none"
    \* ---- main / train_METModel
    pc,            \* the orchestrator's state
    path,          \* the states visited so far (history)
    sink,          \* whether wandb can be initialised
    scope,         \* the distribution scope chosen
    flags,         \* FLAGS and the call's hyperparameters
    graph,         \* the shapes of the graph built
    ckpt,          \* the checkpoint file
    ckpt0,         \* the checkpoint file when the run started (history)
    weights,       \* the live model's weights
    best,          \* ModelCheckpoint.best
    val_hist,      \* val_accuracy of every epoch run so far
    writes,        \* the epochs at which the checkpoint file was written (history)
    n_load,        \* load_weights calls made
    n_fit,         \* fit calls made
    error          \* the exception that ended the run, or "none"

gen_vars == <<gen_pc, orig_df, indexes, indexes0, batch_size, shuffle, gen_mask_pct,
              maxlen, small_maxlen, call, num_batches, X, y, raised>>
trn_vars == <<pc, path, sink, scope, flags, graph, ckpt, ckpt0, weights, best,
              val_hist, writes, n_load, n_fit, error>>
vars == <<gen_vars, trn_vars>>

\* ----------------------------------------------------------- list helpers
Min(a, b) == IF a <= b THEN a ELSE b

Len0(a) == Cardinality(DOMAIN a)

Empty == [i \in {} |-> 0]

\* a[lo:hi]
Slice(a, lo, hi) == [i \in 0..(Min(hi, Len0(a)) - lo - 1) |-> a[lo + i]]

\* list(a) + list(b)
Cat(a, b) ==
    [i \in 0..(Len0(a) + Len0(b) - 1) |-> IF i < Len0(a) THEN a[i] ELSE b[i - Len0(a)]]

\* a[idx] with idx an index array
Take(a, idx) == [j \in DOMAIN idx |-> a[idx[j]]]

range(n) == [i \in 0..(n - 1) |-> i]

\* ndarray.sort: the ascending arrangement of a's entries
sort(a) ==
    [k \in DOMAIN a |->
        CHOOSE v \in {a[i] : i \in DOMAIN a} :
            /\ Cardinality({i \in DOMAIN a : a[i] < v}) <= k
            /\ k < Cardinality({i \in DOMAIN a : a[i] <= v})]

\* rng.permutation(c), np.random.shuffle: every arrangement is possible
permutation(c) ==
    {p \in [0..(c - 1) -> 0..(c - 1)] : \A i, j \in 0..(c - 1) : p[i] = p[j] => i = j}

Shuffles(a) == {Take(a, p) : p \in permutation(Len0(a))}

\* ---------------------------------------------------------- mask_and_ind
kept_count(mask_pct, c) == ((100 - mask_pct) * c) \div 100

\* (variant: the two sorts of lines 89-90 left out)
split_unsorted(p, rem_c) ==
    [rem |-> Slice(p, 0, rem_c), new |-> Slice(p, rem_c, Len0(p))]

\* One row of lines 86-90: a permutation is cut at rem_c and both parts sorted.
split_row(p, rem_c) ==
    [rem |-> sort(Slice(p, 0, rem_c)), new |-> sort(Slice(p, rem_c, Len0(p)))]

row_splits(c, rem_c) == {split_row(p, rem_c) : p \in permutation(c)}

\* arr is [r, c, v]: shape (r, c) and the rows v[0..r-1]. The set of results
\* <new_arr, new_idx, rem_idx> over every draw of the r permutations.
mask_and_ind(arr, mask_pct) ==
    LET new_c == kept_count(mask_pct, arr.c)
        rem_c == arr.c - new_c
    IN  {[new_arr |-> [i \in 0..(arr.r - 1) |-> Take(arr.v[i], s[i].new)],
          new_idx |-> [i \in 0..(arr.r - 1) |-> s[i].new],
          rem_idx |-> [i \in 0..(arr.r - 1) |-> s[i].rem]] :
            s \in [0..(arr.r - 1) -> row_splits(arr.c, rem_c)]}

\* -------------------------------------------------------- DataGenerator
\* The csv files: MaxLen rows, an identifier column 0 and c value columns, all
\* cells distinct.
Table(c) == [r \in 0..(MaxLen - 1) |-> [k \in 0..c |-> r * (MaxCols + 2) + k]]

NoCall == [op |-> "none", index |-> 0]

\* (variant: the shuffle flag ignored)
on_epoch_end_always(ix, sh) == Shuffles(ix)

\* on_epoch_end: the orders self.indexes may have afterwards
on_epoch_end(ix, sh) == IF sh = TRUE THEN Shuffles(ix) ELSE {ix}

\* (variant: the partial batch counted)
__len___ceil(ix, b) == (Len0(ix) + b - 1) \div b

__len__(ix, b) == Len0(ix) \div b

\* self.orig_df.loc[indexes].iloc[:, 1:].to_numpy()
loc_iloc(df, c, ix) ==
    [r |-> Len0(ix), c |-> c,
     v |-> [i \in DOMAIN ix |-> [k \in 0..(c - 1) |-> df[ix[i]][k + 1]]]]

\* (variant: the masked columns first)
target_masked_first(row, m, i) ==
    [j \in 0..(Len0(row) - 1) |-> <<row[Cat(m.rem_idx[i], m.new_idx[i])[j]]>>]

\* Y_train of lines 142, 148-149 for one row
target(row, m, i) ==
    [j \in 0..(Len0(row) - 1) |-> <<row[Cat(m.new_idx[i], m.rem_idx[i])[j]]>>]

ones(n) == [i \in 0..(n - 1) |-> 1]

\* A Python list of four entries, X_train
list4(a, b, c, d) ==
    [k \in 0..3 |-> CASE k = 0 -> a [] k = 1 -> b [] k = 2 -> c [] OTHER -> d]

NoBatch == Empty

GenInit ==
    /\ gen_pc = "new"
    /\ \E c \in 1..MaxCols : orig_df = Table(c)
    /\ indexes = Empty /\ indexes0 = Empty
    /\ batch_size = 0 /\ shuffle = FALSE /\ gen_mask_pct = 0
    /\ maxlen = 0 /\ small_maxlen = 0
    /\ call = NoCall
    /\ num_batches = -1 /\ X = NoBatch /\ y = NoBatch /\ raised = "none"

\* DataGenerator.__init__, with the on_epoch_end it ends with
Construct ==
    /\ gen_pc = "new"
    /\ \E n \in 0..MaxLen, b \in 1..MaxBatch, sh \in BOOLEAN, p \in MaskPcts :
        /\ batch_size' = b
        /\ shuffle' = sh
        /\ maxlen' = Len0(orig_df[0]) - 1
        /\ gen_mask_pct' = p
        /\ small_maxlen' = kept_count(p, Len0(orig_df[0]) - 1)
        /\ indexes0' = range(n)
        /\ indexes' \in on_epoch_end(range(n), sh)
    /\ gen_pc' = "ready"
    /\ call' = [op |-> "__init__", index |-> 0]
    /\ raised' = "none"
    /\ UNCHANGED <<orig_df, num_batches, X, y, trn_vars>>

CallLen ==
    /\ gen_pc = "ready"
    /\ num_batches' = __len__(indexes, batch_size)
    /\ call' = [op |-> "__len__", index |-> 0]
    /\ raised' = "none"
    /\ X' = NoBatch /\ y' = NoBatch
    /\ UNCHANGED <<gen_pc, orig_df, indexes, indexes0, batch_size, shuffle, gen_mask_pct,
                   maxlen, small_maxlen, trn_vars>>

OnEpochEnd ==
    /\ gen_pc = "ready"
    /\ indexes' \in on_epoch_end(indexes, shuffle)
    /\ call' = [op |-> "on_epoch_end", index |-> 0]
    /\ raised' = "none"
    /\ num_batches' = -1 /\ X' = NoBatch /\ y' = NoBatch
    /\ UNCHANGED <<gen_pc, orig_df, indexes0, batch_size, shuffle, gen_mask_pct,
                   maxlen, small_maxlen, trn_vars>>

\* __getitem__(index) and the __data_generation it calls. A slice shorter than
\* batch_size ends in an IndexError: on shuff_idx[:, :rem_c] when it is empty,
\* on new_arr[i] in the loop over range(batch_size) otherwise.
GetItem ==
    /\ gen_pc = "ready"
    /\ \E index \in 0..Len0(indexes) :
        LET ix == Slice(indexes, index * batch_size, (index + 1) * batch_size)
            arr == loc_iloc(orig_df, maxlen, ix)
        IN  /\ call' = [op |-> "__getitem__", index |-> index]
            /\ IF arr.r < batch_size
               THEN /\ raised' = "IndexError"
                    /\ X' = NoBatch /\ y' = NoBatch
               ELSE /\ raised' = "none"
                    /\ \E m \in mask_and_ind(arr, gen_mask_pct) :
                        /\ X' = list4(m.new_arr, m.new_idx, m.rem_idx,
                                      [i \in 0..(batch_size - 1) |-> ones(small_maxlen)])
                        /\ y' = [i \in 0..(batch_size - 1) |-> target(arr.v[i], m, i)]
    /\ num_batches' = -1
    /\ UNCHANGED <<gen_pc, orig_df, indexes, indexes0, batch_size, shuffle, gen_mask_pct,
                   maxlen, small_maxlen, trn_vars>>

\* ------------------------------------------------ DataGenerator: properties
Values(a) == {a[i] : i \in DOMAIN a}

IsAscending(a) == \A i, j \in DOMAIN a : i < j => a[i] < a[j]

Returned == call.op = "__getitem__" /\ raised = "none"

\* C1: in every row i of a batch's mask_and_ind result, new_idx[i] (kept) and
\* rem_idx[i] (masked) are disjoint, together are exactly {0..C-1}, are each
\* strictly ascending, and have K = floor((100-p)*C/100) and C-K entries.
C1_MaskPartition ==
    Returned =>
        \A i \in DOMAIN X[1] :
            LET kept == X[1][i]
                masked == X[2][i]
                K == Len0(kept)
            IN  /\ Values(kept) \cap Values(masked) = {}
                /\ Values(kept) \cup Values(masked) = 0..(maxlen - 1)
                /\ IsAscending(kept) /\ IsAscending(masked)
                /\ K * 100 <= (100 - gen_mask_pct) * maxlen
                /\ (100 - gen_mask_pct) * maxlen < (K + 1) * 100
                /\ Len0(masked) = maxlen - K

\* A batch of two rows whose partitions differ, with kept and masked columns.
C1_Witness ==
    /\ Returned /\ batch_size = 2
    /\ X[1][0] # X[1][1]
    /\ Len0(X[1][0]) >= 1 /\ Len0(X[2][0]) >= 2

\* C2: in every returned batch, the target of row i at position j is the
\* dataset value of the row chosen for slot i at column (kept then masked)[j];
\* so its first K entries are the kept-values input of that row.
C2_TargetRoundTrip ==
    Returned =>
        \A i \in 0..(batch_size - 1) :
            LET row == orig_df[indexes[call.index * batch_size + i]]
                order == Cat(X[1][i], X[2][i])
            IN  /\ DOMAIN y[i] = 0..(maxlen - 1)
                /\ \A j \in 0..(maxlen - 1) : y[i][j] = <<row[order[j] + 1]>>
                /\ \A j \in DOMAIN X[0][i] : y[i][j] = <<X[0][i][j]>>

\* The second batch of a shuffled index list, with kept and masked columns.
C2_Witness ==
    /\ Returned /\ call.index = 1 /\ indexes # indexes0
    /\ Len0(X[1][0]) >= 1 /\ Len0(X[2][0]) >= 1

\* C3: __len__ returns floor(N/B); __getitem__(i) for 0 <= i < floor(N/B)
\* returns exactly B rows, those at index positions [i*B, (i+1)*B); no returned
\* batch reaches into the trailing N mod B positions.
C3_WholeBatchesOnly ==
    LET N == Len0(indexes)
        B == batch_size
    IN  /\ call.op = "__len__" => num_batches * B <= N /\ N < (num_batches + 1) * B
        /\ (call.op = "__getitem__" /\ (call.index + 1) * B <= N) =>
               /\ raised = "none"
               /\ \A k \in 0..2 : DOMAIN X[k] = 0..(B - 1)
               /\ DOMAIN y = 0..(B - 1)
               /\ \A i \in 0..(B - 1) :
                      {y[i][j][1] : j \in DOMAIN y[i]} =
                          {orig_df[indexes[call.index * B + i]][k] : k \in 1..maxlen}
        /\ Returned => (call.index + 1) * B <= N

\* Three indexes in batches of two: one batch, the third index left out.
C3_Witness ==
    /\ call.op = "__len__" /\ Len0(indexes) = 3 /\ batch_size = 2 /\ num_batches = 1

\* C4: a DataGenerator whose batch size exceeds its number of indexes fails
\* with a ConfigurationError (it never just reports zero batches).
C4_OversizedBatchFails ==
    (gen_pc = "ready" /\ batch_size > Len0(indexes)) => raised = "ConfigurationError"

\* C10: self.indexes is always a permutation of the list given to __init__;
\* __getitem__ changes neither the index order nor the table; on_epoch_end
\* changes no order when shuffle is off.
C10_IndexFrame ==
    /\ [](gen_pc = "ready" =>
            /\ DOMAIN indexes = DOMAIN indexes0
            /\ \A v \in Values(indexes0) :
                   Cardinality({i \in DOMAIN indexes : indexes[i] = v})
                       = Cardinality({i \in DOMAIN indexes0 : indexes0[i] = v}))
    /\ [][call'.op = "__getitem__" => indexes' = indexes /\ orig_df' = orig_df]_vars
    /\ [][(call'.op = "on_epoch_end" /\ shuffle = FALSE) => indexes' = indexes]_vars

\* A reshuffle at an epoch's end that changed the order of three indexes.
C10_Witness ==
    /\ call.op = "on_epoch_end" /\ shuffle = TRUE
    /\ Len0(indexes) = 3 /\ indexes # indexes0

\* ------------------------------------------------------- graph shapes
\* A tensor is its shape, a tuple; Python's empty list [] is NoTensor.
NoTensor == <<>>

\* tf.expand_dims(x, axis) for axis -1 and axis 1
expand_dims(s, axis) ==
    IF axis = -1 THEN Append(s, 1)
    ELSE SubSeq(s, 1, axis) \o <<1>> \o SubSeq(s, axis + 1, Len(s))

\* tf.repeat(x, repeats, axis)
repeat(s, repeats, axis) == [s EXCEPT ![axis + 1] = s[axis + 1] * repeats]

\* Embedding(output_dim)(idx), Dense(units)(x)
Embedding(s, output_dim) == Append(s, output_dim)

Dense(s, units) == [s EXCEPT ![Len(s)] = units]

Built(s) == [ok |-> TRUE, shape |-> s, err |-> "none"]

Raised(e) == [ok |-> FALSE, shape |-> NoTensor, err |-> e]

\* Concatenate(axis)(inputs) on tensors: every dimension but axis must agree.
concat_tensors(axis, inputs) ==
    IF \A i, j \in DOMAIN inputs :
          /\ Len(inputs[i]) = Len(inputs[j])
          /\ \A d \in DOMAIN inputs[i] : d # axis + 1 => inputs[i][d] = inputs[j][d]
    THEN LET RECURSIVE total(_)
             total(n) == IF n = 0 THEN 0 ELSE total(n - 1) + inputs[n][axis + 1]
         IN  Built([inputs[1] EXCEPT ![axis + 1] = total(Len(inputs))])
    ELSE Raised("ValueError")

\* Concatenate(axis)(inputs): the outcomes it may have. A [] among the inputs is
\* no tensor: Keras either raises on it while building the layer or flattens it
\* away and concatenates the rest, depending on its version.
Concatenate(axis, inputs) ==
    IF \A i \in DOMAIN inputs : inputs[i] # NoTensor
    THEN {concat_tensors(axis, inputs)}
    ELSE {Raised("IndexError"),
          concat_tensors(axis, SelectSeq(inputs, LAMBDA t : t # NoTensor))}

\* TokenAndPositionEmbedding.call: the kept stream and the masked positions'
\* embedding, which is [] when fewer than 2 positions are masked
TokenAndPositionEmbedding_call(x, positions_unmask, positions_mask, embed_dim) ==
    [x |-> CHOOSE r \in Concatenate(2, <<expand_dims(x, -1),
                                         Embedding(positions_unmask, embed_dim)>>) : TRUE,
     positions_mask |-> IF positions_mask[2] >= 2
                        THEN Embedding(positions_mask, embed_dim)
                        ELSE NoTensor]

\* TransformerBlock(embed_dim, ...)(inputs): attention keeps the shape, the
\* feed-forward ends in Dense(embed_dim), and the residual sums need equal shapes.
TransformerBlock_call(inputs, embed_dim) ==
    CHOOSE out \in {IF ~x.ok THEN x
                    ELSE IF Dense(x.shape, embed_dim) = x.shape THEN x
                    ELSE Raised("ValueError") : x \in {inputs}} : TRUE

RECURSIVE Stack(_, _, _)
Stack(inputs, embed_dim, depth) ==
    IF depth = 0 THEN inputs
    ELSE Stack(TransformerBlock_call(inputs, embed_dim), embed_dim, depth - 1)

\* The flags' defaults
model_depth_enc == 6

model_depth_dec == 1

NoGraph == [built |-> FALSE, non_mask_embed |-> NoTensor, mask_embed |-> NoTensor,
            all_embed |-> NoTensor, pred |-> NoTensor]

\* Lines 221-262 of train_METModel: the graphs it may build, each with the
\* exception that ended the build, if any.
build_graph(batch, mlen, mask_pct, embed_dim) ==
    LET sm == kept_count(mask_pct, mlen)
        emb == TokenAndPositionEmbedding_call(
                   <<batch, sm>>, <<batch, sm>>, <<batch, mlen - sm>>, embed_dim)
        enc == Stack(emb.x, embed_dim + 1, model_depth_enc)
        me0 == repeat(expand_dims(Dense(<<batch, sm>>, 1), 1), mlen - sm, 1)
    IN  {IF ~enc.ok THEN [g |-> NoGraph, err |-> enc.err]
         ELSE IF ~me.ok THEN [g |-> NoGraph, err |-> me.err]
         ELSE LET all0 == CHOOSE r \in Concatenate(1, <<enc.shape, me.shape>>) : TRUE
                  dec == Stack(all0, embed_dim + 1, model_depth_dec)
              IN  IF ~dec.ok THEN [g |-> NoGraph, err |-> dec.err]
                  ELSE [g |-> [built |-> TRUE, non_mask_embed |-> enc.shape,
                               mask_embed |-> me.shape, all_embed |-> dec.shape,
                               pred |-> Dense(dec.shape, 1)],
                        err |-> "none"] :
            me \in Concatenate(2, <<me0, emb.positions_mask>>)}

\* ------------------------------------------------- main / train_METModel
\* ModelCheckpoint(mode='max', save_best_only=True): best starts at -inf, which
\* is below every accuracy.
NegInf == -1

\* (variant: a tie with best counts as an improvement)
monitor_op_ge(current, b) == current >= b

monitor_op(current, b) == current > b

\* The weights a checkpoint found at the path holds; 0 is the fresh model's, e
\* those after epoch e.
Pretrained == -1

CkptFiles == {[state |-> "absent", w |-> 0],
              [state |-> "compatible", w |-> Pretrained],
              [state |-> "incompatible", w |-> Pretrained]}

\* WandBLogger.__init__: wandb.init and the yaml it reads may raise
WandBLogger_init(s) == IF s = "ok" THEN "none" ELSE "wandb.Error"

_get_distribution_strategy_scope(platform) ==
    IF platform = "tpu" THEN "TPUStrategy"
    ELSE IF platform = "gpu" THEN "MirroredStrategy"
    ELSE IF platform = "cpu" THEN "nullcontext"
    ELSE "ValueError"

TrnIdle ==
    /\ pc = "Idle" /\ path = <<>> /\ sink = "ok" /\ scope = "none"
    /\ flags = [mask_pct |-> 0, embed_dim |-> 0, batch_size |-> 0, num_epochs |-> 0]
    /\ graph = NoGraph /\ ckpt = [state |-> "absent", w |-> 0]
    /\ ckpt0 = [state |-> "absent", w |-> 0]
    /\ weights = 0 /\ best = NegInf /\ val_hist = <<>> /\ writes = <<>>
    /\ n_load = 0 /\ n_fit = 0 /\ error = "none"

InitGen == GenInit /\ TrnIdle

NextGen == Construct \/ CallLen \/ OnEpochEnd \/ GetItem

SpecGen == InitGen /\ [][NextGen]_vars

TrnInit ==
    /\ pc = "Init" /\ path = <<"Init">>
    /\ sink \in {"ok", "unavailable"}
    /\ scope = "none"
    /\ flags \in [mask_pct : MaskPcts, embed_dim : 1..MaxEmbed,
                  batch_size : 1..MaxBatch, num_epochs : 1..MaxEpochs]
    /\ graph = NoGraph
    /\ ckpt \in CkptFiles /\ ckpt0 = ckpt
    /\ weights = 0 /\ best = NegInf /\ val_hist = <<>> /\ writes = <<>>
    /\ n_load = 0 /\ n_fit = 0 /\ error = "none"

Goto(state) == pc' = state /\ path' = Append(path, state)

Fail(e) == Goto("Failed") /\ error' = e

\* main, line 297: logger = WandBLogger()
StartLogger ==
    /\ pc = "Init"
    /\ IF WandBLogger_init(sink) = "none"
       THEN Goto("Logged") /\ error' = error
       ELSE Fail(WandBLogger_init(sink))
    /\ UNCHANGED <<gen_vars, sink, scope, flags, graph, ckpt, ckpt0, weights, best,
                   val_hist, writes, n_load, n_fit>>

\* main, line 299; FLAGS.platform is one of the enum's three values
SelectScope ==
    /\ pc = "Logged"
    /\ \E platform \in {"cpu", "gpu", "tpu"} :
        scope' = _get_distribution_strategy_scope(platform)
    /\ Goto("ScopeSelected")
    /\ UNCHANGED <<gen_vars, sink, flags, graph, ckpt, ckpt0, weights, best,
                   val_hist, writes, n_load, n_fit, error>>

\* train_METModel, lines 218-262: the batch size is clamped, the generators are
\* made and the graph is wired
BuildGraph ==
    /\ pc = "ScopeSelected"
    /\ \E batch \in {Min(flags.batch_size, Min(train_len, test_len)) :
                         train_len \in 1..MaxLen, test_len \in 1..MaxLen} :
        \E b \in build_graph(batch, Len0(orig_df[0]) - 1, flags.mask_pct,
                             flags.embed_dim) :
            /\ graph' = b.g
            /\ IF b.err = "none" THEN Goto("GraphBuilt") /\ error' = error
               ELSE Fail(b.err)
    /\ UNCHANGED <<gen_vars, sink, scope, flags, ckpt, ckpt0, weights, best,
                   val_hist, writes, n_load, n_fit>>

\* lines 263-280: Model, compile, the checkpoint path and the ModelCheckpoint
Compile ==
    /\ pc = "GraphBuilt"
    /\ best' = NegInf
    /\ Goto("CheckpointProbe")
    /\ UNCHANGED <<gen_vars, sink, scope, flags, graph, ckpt, ckpt0, weights,
                   val_hist, writes, n_load, n_fit, error>>

\* (variant: fit is run whether or not the load succeeded)
Probe_then_fit ==
    /\ pc = "CheckpointProbe"
    /\ n_load' = n_load + 1
    /\ weights' = IF ckpt.state = "compatible" THEN ckpt.w ELSE weights
    /\ n_fit' = n_fit + 1
    /\ Goto("Training")
    /\ UNCHANGED <<gen_vars, sink, scope, flags, graph, ckpt, ckpt0, best,
                   val_hist, writes, error>>

\* lines 281-291: load_weights; whatever it raises starts fit, whose callbacks
\* include WandbMetricsLogger(), which needs an initialised wandb run
Probe ==
    /\ pc = "CheckpointProbe"
    /\ n_load' = n_load + 1
    /\ IF ckpt.state = "compatible"
       THEN /\ weights' = ckpt.w
            /\ Goto("Resumed")
            /\ UNCHANGED <<n_fit, error>>
       ELSE /\ weights' = weights
            /\ IF sink = "ok"
               THEN Goto("Training") /\ n_fit' = n_fit + 1 /\ error' = error
               ELSE Fail("wandb.Error") /\ n_fit' = n_fit
    /\ UNCHANGED <<gen_vars, sink, scope, flags, graph, ckpt, ckpt0, best,
                   val_hist, writes>>

\* line 293 after line 283
ReturnResumed ==
    /\ pc = "Resumed"
    /\ Goto("Done")
    /\ UNCHANGED <<gen_vars, sink, scope, flags, graph, ckpt, ckpt0, weights, best,
                   val_hist, writes, n_load, n_fit, error>>

\* One epoch of fit: the weights are updated, validation gives val_accuracy,
\* and ModelCheckpoint.on_epoch_end saves the weights when it beats best.
Epoch ==
    /\ pc = "Training"
    /\ Len(val_hist) < flags.num_epochs
    /\ \E acc \in 0..MaxAcc :
        LET e == Len(val_hist) + 1
        IN  /\ weights' = e
            /\ val_hist' = Append(val_hist, acc)
            /\ IF monitor_op(acc, best)
               THEN /\ best' = acc
                    /\ ckpt' = [state |-> "compatible", w |-> e]
                    /\ writes' = Append(writes, e)
               ELSE UNCHANGED <<best, ckpt, writes>>
    /\ UNCHANGED <<gen_vars, pc, path, sink, scope, flags, graph, ckpt0, n_load,
                   n_fit, error>>

\* (variant: the model returned as fit left it)
Reload_skipped ==
    /\ pc = "Training"
    /\ Len(val_hist) = flags.num_epochs
    /\ Goto("Done")
    /\ UNCHANGED <<gen_vars, sink, scope, flags, graph, ckpt, ckpt0, weights, best,
                   val_hist, writes, n_load, n_fit, error>>

\* fit returns after num_epochs; lines 292-293: load_weights and return
Reload ==
    /\ pc = "Training"
    /\ Len(val_hist) = flags.num_epochs
    /\ n_load' = n_load + 1
    /\ IF ckpt.state = "compatible"
       THEN weights' = ckpt.w /\ Goto("Done") /\ error' = error
       ELSE weights' = weights /\ Fail("NotFoundError")
    /\ UNCHANGED <<gen_vars, sink, scope, flags, graph, ckpt, ckpt0, best,
                   val_hist, writes, n_fit>>

InitTrain == GenInit /\ TrnInit

NextTrain ==
    \/ StartLogger \/ SelectScope \/ BuildGraph \/ Compile \/ Probe
    \/ ReturnResumed \/ Epoch \/ Reload

SpecTrain == InitTrain /\ [][NextTrain]_vars

\* The run is one sequential program: a step that can be taken is taken.
SpecTrainFair == SpecTrain /\ WF_vars(NextTrain)

\* --------------------------------------------- train_METModel: properties
Visited(state) == \E k \in DOMAIN path : path[k] = state

EndsWith(suffix) ==
    /\ Len(path) >= Len(suffix)
    /\ SubSeq(path, Len(path) - Len(suffix) + 1, Len(path)) = suffix

\* The epoch whose weights ModelCheckpoint keeps: the earliest with the
\* highest validation accuracy.
BestEpoch(h) ==
    CHOOSE e \in DOMAIN h :
        /\ \A k \in DOMAIN h : h[k] <= h[e]
        /\ \A k \in 1..(e - 1) : h[k] < h[e]

\* C5: with a shape-compatible checkpoint at the path, the run goes
\* CheckpointProbe -> Resumed -> Done: fit is never run, the file is never
\* written, and the model returned holds the file's weights after exactly one
\* load_weights call.
C5_ResumeSkipsTraining ==
    ckpt0.state = "compatible" =>
        /\ n_fit = 0 /\ writes = <<>> /\ val_hist = <<>> /\ ckpt = ckpt0
        /\ ~Visited("Training")
        /\ Visited("CheckpointProbe") /\ pc # "CheckpointProbe" =>
               /\ pc \in {"Resumed", "Done"}
               /\ n_load = 1 /\ weights = ckpt0.w
        /\ pc = "Done" => EndsWith(<<"CheckpointProbe", "Resumed", "Done">>)

\* A run that returned the pretrained weights.
C5_Witness ==
    /\ pc = "Done" /\ ckpt0.state = "compatible" /\ weights = Pretrained /\ n_load = 1

\* C6 as stated: a run whose validation accuracy never goes up from one epoch
\* to the next leaves the checkpoint file as it found it.
C6_NoImprovementNoWrite ==
    (pc = "Done" /\ n_fit = 1
     /\ \A e \in 2..Len(val_hist) : val_hist[e] <= val_hist[e - 1])
        => ckpt = ckpt0

\* C6 as amended: the checkpoint file is written at the end of an epoch exactly
\* when that epoch's validation accuracy is strictly above that of every earlier
\* epoch of the run (so the first epoch always writes it), and at no other
\* time; it holds the weights of the last such epoch.
C6_WritesExactlyOnNewBest ==
    /\ \A k \in DOMAIN writes : writes[k] \in DOMAIN val_hist
    /\ \A j, k \in DOMAIN writes : j < k => writes[j] < writes[k]
    /\ \A e \in DOMAIN val_hist :
           (\E k \in DOMAIN writes : writes[k] = e)
               <=> (\A k \in 1..(e - 1) : val_hist[k] < val_hist[e])
    /\ IF writes = <<>> THEN ckpt = ckpt0
       ELSE ckpt = [state |-> "compatible", w |-> writes[Len(writes)]]

\* Three epochs with accuracies a, a, b > a: written after the first and third.
C6_Witness ==
    /\ pc = "Done" /\ Len(val_hist) = 3 /\ writes = <<1, 3>>
    /\ val_hist[2] = val_hist[1]

BuildAttempted == Visited("ScopeSelected") /\ pc # "ScopeSelected"

\* C7: for every mask_pct and column count C, the graph gives the placeholder
\* stream the feature width embed_dim+1 of the encoded kept stream and the
\* decoder a sequence of length C = K + (C-K).
C7_DecoderSequenceIsC ==
    BuildAttempted =>
        /\ graph.built
        /\ graph.non_mask_embed[3] = flags.embed_dim + 1
        /\ graph.mask_embed[3] = flags.embed_dim + 1
        /\ graph.all_embed[2] = Len0(orig_df[0]) - 1

\* C8: a metrics sink that cannot be initialised never keeps a run started
\* through main from building the model and reaching the checkpoint probe.
C8_SinkNeverBlocks ==
    (sink = "unavailable" /\ pc = "Failed") => Visited("CheckpointProbe")

\* C9: when the probe's load fails, the run trains for num_epochs, always
\* reaches Done through the reload, and returns the weights of the earliest
\* epoch with the highest validation accuracy.
C9_TrainThenReloadBest ==
    /\ [](ckpt0.state # "compatible" =>
            /\ (Visited("CheckpointProbe") /\ pc # "CheckpointProbe") =>
                   Visited("Training") /\ n_fit = 1
            /\ pc = "Done" =>
                   /\ EndsWith(<<"CheckpointProbe", "Training", "Done">>)
                   /\ Len(val_hist) = flags.num_epochs
                   /\ n_load = 2
                   /\ weights = BestEpoch(val_hist))
    /\ (pc = "CheckpointProbe" /\ ckpt.state # "compatible") ~> (pc = "Done")

\* Three epochs, the second the best and tied by the third: the model returned
\* holds the second epoch's weights over a checkpoint that could not be loaded.
C9_Witness ==
    /\ pc = "Done" /\ ckpt0.state = "incompatible" /\ Len(val_hist) = 3
    /\ val_hist[1] < val_hist[2] /\ val_hist[3] = val_hist[2] /\ weights = 2

====
